---- MODULE Spec2Model ----
(***************************************************************************)
(* Model of checker.py: the Event observer list, the Parse link extractor, *)
(* ApUpdateChecker.check_fw and the DiscordAPFWBot watch loop.             *)
(*                                                                         *)
(* Fetched content is a sequence of markup items (start tags, character    *)
(* data, or a byte sequence that is not valid UTF-8).  Links are sequences *)
(* of characters, so that startswith / lower / endswith are computed.      *)
(* A page may end in a start tag that is cut off before its '>':           *)
(* HTMLParser keeps it buffered and parses it joined with the next text.   *)
(***************************************************************************)
EXTENDS Integers, Sequences, FiniteSets, TLC

\* ------------------------------------------------------------------ bounds
\* number of check_fw calls a caller of the checker makes
MaxChecks == 3
\* longest handler list of on_new_page
MaxHandlers == 2
\* number of check_fw calls the watch loop makes
MaxCycles == 2
\* number of watch-loop tasks on_ready creates
MaxTasks == 2
\* the longest markup given to a Parse object on its own, in items
MaxMarkup == 3

\* ------------------------------------------------------------------ values
\* Python's None, comparable with links, digests and timestamps (all tuples)
None == <<"None">>

HTTP == <<"h", "t", "t", "p">>
DOTBIN == <<".", "b", "i", "n">>

\* "http/1.bin"
FW1 == <<"h", "t", "t", "p", "/", "1", ".", "b", "i", "n">>
\* "http/2.BIN": qualifies only because the suffix test lowers the link
FW2 == <<"h", "t", "t", "p", "/", "2", ".", "B", "I", "N">>
\* "/3.bin": relative, does not start with http
REL == <<"/", "3", ".", "b", "i", "n">>
\* "http/4.txt": absolute, wrong extension
TXT == <<"h", "t", "t", "p", "/", "4", ".", "t", "x", "t">>

\* str.lower() on one character
LowerChar(c) ==
    CASE c = "B" -> "b"
      [] c = "I" -> "i"
      [] c = "N" -> "n"
      [] c = "H" -> "h"
      [] c = "T" -> "t"
      [] c = "P" -> "p"
      [] c = "X" -> "x"
      [] OTHER -> c

\* str.lower()
Lower(s) == [i \in 1..Len(s) |-> LowerChar(s[i])]

\* str.startswith(p)
StartsWith(s, p) ==
    /\ Len(s) >= Len(p)
    /\ SubSeq(s, 1, Len(p)) = p

\* str.endswith(p)
EndsWith(s, p) ==
    /\ Len(s) >= Len(p)
    /\ SubSeq(s, Len(s) - Len(p) + 1, Len(s)) = p

\* ------------------------------------------------------------------ markup
StartTag(tag, attrs) == [kind |-> "starttag", tag |-> tag, attrs |-> attrs]
Data == [kind |-> "data", tag |-> "", attrs |-> <<>>]
\* a byte sequence that is not valid UTF-8 (e.g. 0xFF)
InvalidBytes == [kind |-> "invalid", tag |-> "", attrs |-> <<>>]

\* a start tag cut off before its '>', after a quoted attribute value:
\* <a href="http/2.BIN"
OpenTag(tag, attrs) == [kind |-> "opentag", tag |-> tag, attrs |-> attrs]
\* a start tag inside quotes: x='<a href="http/1.bin">'> .  Text around a
\* start tag on its own; the value of an attribute x and the end of the tag
\* when it follows a start tag that is cut off
Quoted(tag, attrs) == [kind |-> "quoted", tag |-> tag, attrs |-> attrs]

A(link) == StartTag("a", << <<"href", link>> >>)

\* bytes as received; the items are what the bytes spell out
Bytes(items) == [bytes |-> items]

\* <a href="http/1.bin">
PageFw1 == << A(FW1) >>
\* text <a href="http/1.bin"> <a href="/3.bin"> <link href="http/2.BIN">:
\* other bytes than PageFw1, same last qualifying link
PageFw1b == << Data, A(FW1), A(REL), StartTag("link", << <<"href", FW2>> >>) >>
\* <a href="http/1.bin"> <a href="http/2.BIN">: two qualifying links
PageFw2 == << A(FW1), A(FW2) >>
\* <a href="http/4.txt"> text: no qualifying link
PageNoLink == << A(TXT), Data >>
\* <a href="http/2.BIN"> <a href>: an href attribute without a value
PageNoValue == << A(FW2), A(None) >>
\* bytes that are not valid UTF-8, then <a href="http/1.bin">
PageInvalid == << InvalidBytes, A(FW1) >>
\* <a href="http/1.bin"><a href="http/2.BIN  cut off before the '>'
PageTruncated == << A(FW1), OpenTag("a", << <<"href", FW2>> >>) >>
\* x='<a href="http/1.bin">'> : one link, between quotes
PageQuoted == << Quoted("a", << <<"href", FW1>> >>) >>

\* the bodies a fetch may return with status 200, in a fixed order
Contents ==
    << Bytes(PageFw1), Bytes(PageFw1b), Bytes(PageFw2),
       Bytes(PageNoLink), Bytes(PageNoValue), Bytes(PageInvalid),
       Bytes(PageTruncated), Bytes(PageQuoted) >>
ContentSet == {Contents[i] : i \in 1..Len(Contents)}

\* the body of a non-200 response
ErrorBody == Bytes(PageFw2)

\* requests.get: a response, or a transport error raised by the call
Response(status, content) == [raised |-> FALSE, status_code |-> status, content |-> content]
ConnectionError == [raised |-> TRUE, status_code |-> 0, content |-> Bytes(<<>>)]
Responses ==
    {Response(200, c) : c \in ContentSet}
        \cup {Response(404, ErrorBody)}
        \cup {ConnectionError}

\* what requests.get does in the cycles of the watch loop: a page without
\* link, with one link, with that link and another, a non-200 response, or a
\* transport error
LoopResponses ==
    {Response(200, Bytes(PageNoLink)), Response(200, Bytes(PageFw1)),
     Response(200, Bytes(PageFw2)), Response(404, ErrorBody), ConnectionError}

\* bytes.decode('utf8'): raises UnicodeDecodeError on invalid input
DecodeRaises(content) ==
    \E i \in 1..Len(content.bytes) : content.bytes[i].kind = "invalid"
\* the decoded text of valid content
Decode(content) == content.bytes

\* hashlib.sha256(content).hexdigest(): a digest that differs for different
\* contents (collision resistance), here the position of the content
sha256(content) ==
    <<"sha256", CHOOSE i \in 1..Len(Contents) : Contents[i] = content>>

\* ------------------------------------------------------------------ Event
\* one handler invocation made by Event.__call__
Invocation(event, handler, arg, raised) ==
    [kind |-> "invoke", event |-> event, handler |-> handler, arg |-> arg, raised |-> raised]
\* the call of an Event object itself
Firing(event, arg) ==
    [kind |-> "fire", event |-> event, handler |-> "", arg |-> arg, raised |-> FALSE]

\* Event.__iadd__: append
iadd(eventhandlers, handler) == Append(eventhandlers, handler)

\* list.remove: drops the first occurrence (the caller checks it is there)
RECURSIVE Remove(_, _)
Remove(s, x) ==
    IF s = <<>> THEN <<>>
    ELSE IF Head(s) = x THEN Tail(s)
    ELSE <<Head(s)>> \o Remove(Tail(s), x)

\* Event.__isub__
isub(eventhandlers, handler) == Remove(eventhandlers, handler)

\* index of the first handler of the list that raises, Len + 1 if none does
FirstRaising(eventhandlers, raising) ==
    LET bad == {i \in 1..Len(eventhandlers) : eventhandlers[i] \in raising}
    IN  IF bad = {} THEN Len(eventhandlers) + 1
        ELSE CHOOSE i \in bad : \A j \in bad : i <= j

\* Event.__call__: the handlers are called in list order; an exception of a
\* handler leaves the loop and the call.  raising: the handlers that raise.
EventCall(event, eventhandlers, arg, raising) ==
    LET k == FirstRaising(eventhandlers, raising)
        last == IF k <= Len(eventhandlers) THEN k ELSE Len(eventhandlers)
    IN  [trace |-> <<Firing(event, arg)>> \o
                   [i \in 1..last |-> Invocation(event, eventhandlers[i], arg, i = k)],
         raised |-> k <= Len(eventhandlers)]

\* ------------------------------------------------------------------ Parse
\* the test of handle_starttag on one attribute; link is not None
Qualifies(name, link) ==
    /\ name = "href"
    /\ StartsWith(link, HTTP)
    /\ EndsWith(Lower(link), DOTBIN)

\* link.startswith on None: AttributeError (name == "href" is tested first)
AttrRaises(name, link) == name = "href" /\ link = None

\* the loop over attrs of handle_starttag, from attribute i on
RECURSIVE HandleAttrs(_, _, _)
HandleAttrs(fw_link, attrs, i) ==
    IF i > Len(attrs) THEN [fw_link |-> fw_link, raised |-> FALSE]
    ELSE IF AttrRaises(attrs[i][1], attrs[i][2])
         THEN [fw_link |-> fw_link, raised |-> TRUE]
    ELSE IF Qualifies(attrs[i][1], attrs[i][2])
         THEN HandleAttrs(attrs[i][2], attrs, i + 1)
    ELSE HandleAttrs(fw_link, attrs, i + 1)

\* Parse.handle_starttag
handle_starttag(fw_link, tag, attrs) ==
    IF tag = "a" THEN HandleAttrs(fw_link, attrs, 1)
    ELSE [fw_link |-> fw_link, raised |-> FALSE]

\* what the text after a cut-off start tag adds to its attributes when the
\* two are parsed as one tag: a name without value ("text", "<a"), and the
\* attribute x of a Quoted item
Junk == <<"junk", None>>
QuotedAttr == <<"x", <<"<", "a">>>>

\* HTMLParser.parse_starttag on a start tag that was cut off: the items
\* from j on are read as more attributes of it, up to the first '>'
RECURSIVE Absorb(_, _, _)
Absorb(attrs, rawdata, j) ==
    IF j > Len(rawdata) THEN [attrs |-> attrs, next |-> j, closed |-> FALSE]
    ELSE IF rawdata[j].kind = "starttag"
         THEN [attrs |-> attrs \o <<Junk>> \o rawdata[j].attrs, next |-> j + 1, closed |-> TRUE]
    ELSE IF rawdata[j].kind = "quoted"
         THEN [attrs |-> Append(attrs, QuotedAttr), next |-> j + 1, closed |-> TRUE]
    ELSE IF rawdata[j].kind = "opentag"
         THEN Absorb(attrs \o <<Junk>> \o rawdata[j].attrs, rawdata, j + 1)
    ELSE Absorb(Append(attrs, Junk), rawdata, j + 1)

\* HTMLParser.goahead over the buffered items, from item i on; rest is the
\* first item that stays buffered: a start tag that is still cut off
RECURSIVE GoAhead(_, _, _)
GoAhead(fw_link, rawdata, i) ==
    IF i > Len(rawdata) THEN [fw_link |-> fw_link, raised |-> FALSE, rest |-> i]
    ELSE IF rawdata[i].kind \in {"starttag", "quoted"}
         THEN LET r == handle_starttag(fw_link, rawdata[i].tag, rawdata[i].attrs)
              IN  IF r.raised THEN [fw_link |-> r.fw_link, raised |-> TRUE, rest |-> 1]
                  ELSE GoAhead(r.fw_link, rawdata, i + 1)
    ELSE IF rawdata[i].kind = "opentag"
         THEN LET a == Absorb(rawdata[i].attrs, rawdata, i + 1)
                  r == handle_starttag(fw_link, rawdata[i].tag, a.attrs)
              IN  IF ~a.closed THEN [fw_link |-> fw_link, raised |-> FALSE, rest |-> i]
                  ELSE IF r.raised THEN [fw_link |-> r.fw_link, raised |-> TRUE, rest |-> 1]
                  ELSE GoAhead(r.fw_link, rawdata, a.next)
    ELSE GoAhead(fw_link, rawdata, i + 1)

\* HTMLParser.feed on the parser object [fw_link, rawdata]: the data is
\* appended to the buffer and the buffer is parsed; what was parsed leaves
\* the buffer, a start tag that is cut off stays in it with all that
\* follows, and an exception of handle_starttag leaves everything buffered
\* for the next feed.  fw_link is never reset.
feed(html_parser, data) ==
    LET rawdata == html_parser.rawdata \o data
        r == GoAhead(html_parser.fw_link, rawdata, 1)
    IN  [fw_link |-> r.fw_link,
         rawdata |-> IF r.raised THEN rawdata ELSE SubSeq(rawdata, r.rest, Len(rawdata)),
         raised |-> r.raised]

\* Parse.__init__
NewParser == [fw_link |-> None, rawdata |-> <<>>]

\* the link a fresh Parse object extracts from text (None: no feed raised
\* before a qualifying link, or no link qualifies)
Extract(text) == feed(NewParser, text).fw_link

\* ------------------------------------------------------------------ check_fw
\* datetime.now() at the n-th call of check_fw
datetime_now(n) == <<"datetime", n>>

\* how a call ended: it returned a value or an exception left it
Return(value) == [kind |-> "return", value |-> value]
Raise(exc) == [kind |-> "raise", value |-> <<exc>>]

\* the result of check_fw: the fields of the checker after the call, the
\* events fired and handlers invoked during it, and how the call ended
Outcome(old_hash_, last_crawl_, html_parser_, trace_, ret_) ==
    [old_hash |-> old_hash_, last_crawl |-> last_crawl_, html_parser |-> html_parser_,
     trace |-> trace_, ret |-> ret_]

\* PageUpdated without line 104: the new link is returned, on_new_fw is not
\* fired
PageUpdated_no_fw_event(self, text, hash, time, raising_page, raising_fw) ==
    LET page == EventCall("on_new_page", self.on_new_page, text, raising_page)
        old_fw_link == self.html_parser.fw_link
        fed == feed(self.html_parser, text)
        parser == [fw_link |-> fed.fw_link, rawdata |-> fed.rawdata]
    IN  IF page.raised
        THEN Outcome(hash, time, self.html_parser, page.trace, Raise("HandlerError"))
        ELSE IF fed.raised
        THEN Outcome(hash, time, parser, page.trace, Raise("AttributeError"))
        ELSE IF old_fw_link # fed.fw_link
        THEN Outcome(hash, time, parser, page.trace, Return(fed.fw_link))
        ELSE Outcome(hash, time, parser, page.trace, Return(None))

\* check_fw from line 89 on: the hash differs from the stored one
PageUpdated(self, text, hash, time, raising_page, raising_fw) ==
    LET page == EventCall("on_new_page", self.on_new_page, text, raising_page)
        old_fw_link == self.html_parser.fw_link
        fed == feed(self.html_parser, text)
        parser == [fw_link |-> fed.fw_link, rawdata |-> fed.rawdata]
        fw == EventCall("on_new_fw", self.on_new_fw, fed.fw_link, raising_fw)
    IN  IF page.raised
        THEN Outcome(hash, time, self.html_parser, page.trace, Raise("HandlerError"))
        ELSE IF fed.raised
        THEN Outcome(hash, time, parser, page.trace, Raise("AttributeError"))
        ELSE IF old_fw_link # fed.fw_link
        THEN IF fw.raised
             THEN Outcome(hash, time, parser, page.trace \o fw.trace, Raise("HandlerError"))
             ELSE Outcome(hash, time, parser, page.trace \o fw.trace, Return(fed.fw_link))
        ELSE Outcome(hash, time, parser, page.trace, Return(None))

\* check_fw from line 81 on: there is no stored hash yet
Initialize(self, text, hash, time) ==
    LET fed == feed(self.html_parser, text)
        parser == [fw_link |-> fed.fw_link, rawdata |-> fed.rawdata]
    IN  IF fed.raised
        THEN Outcome(hash, time, parser, <<>>, Raise("AttributeError"))
        ELSE Outcome(hash, time, parser, <<>>, Return(None))

\* check_fw with last_crawl set before the status test of line 70
check_fw_crawl_first(self, resp, time, raising_page, raising_fw) ==
    IF resp.raised
    THEN Outcome(self.old_hash, self.last_crawl, self.html_parser, <<>>,
                 Raise("ConnectionError"))
    ELSE IF resp.status_code # 200
    THEN Outcome(self.old_hash, time, self.html_parser, <<>>, Return(None))
    ELSE IF DecodeRaises(resp.content)
    THEN Outcome(self.old_hash, time, self.html_parser, <<>>, Raise("UnicodeDecodeError"))
    ELSE LET text == Decode(resp.content)
             hash == sha256(resp.content)
         IN  IF self.old_hash = None
             THEN Initialize(self, text, hash, time)
             ELSE IF hash # self.old_hash
             THEN PageUpdated(self, text, hash, time, raising_page, raising_fw)
             ELSE Outcome(self.old_hash, time, self.html_parser, <<>>, Return(None))

\* check_fw with "else" in place of "elif hash != self.old_hash" on line 89
check_fw_no_compare(self, resp, time, raising_page, raising_fw) ==
    IF resp.raised
    THEN Outcome(self.old_hash, self.last_crawl, self.html_parser, <<>>,
                 Raise("ConnectionError"))
    ELSE IF resp.status_code # 200
    THEN Outcome(self.old_hash, self.last_crawl, self.html_parser, <<>>, Return(None))
    ELSE IF DecodeRaises(resp.content)
    THEN Outcome(self.old_hash, time, self.html_parser, <<>>, Raise("UnicodeDecodeError"))
    ELSE LET text == Decode(resp.content)
             hash == sha256(resp.content)
         IN  IF self.old_hash = None
             THEN Initialize(self, text, hash, time)
             ELSE PageUpdated(self, text, hash, time, raising_page, raising_fw)

\* ApUpdateChecker.check_fw, on self = [old_hash, last_crawl, html_parser,
\* on_new_page, on_new_fw]; resp is what requests.get does, time what
\* datetime.now() returns, raising_page / raising_fw the handlers that raise
check_fw(self, resp, time, raising_page, raising_fw) ==
    IF resp.raised
    THEN Outcome(self.old_hash, self.last_crawl, self.html_parser, <<>>,
                 Raise("ConnectionError"))
    ELSE IF resp.status_code # 200
    THEN Outcome(self.old_hash, self.last_crawl, self.html_parser, <<>>, Return(None))
    ELSE IF DecodeRaises(resp.content)
    THEN Outcome(self.old_hash, time, self.html_parser, <<>>, Raise("UnicodeDecodeError"))
    ELSE LET text == Decode(resp.content)
             hash == sha256(resp.content)
         IN  IF self.old_hash = None
             THEN Initialize(self, text, hash, time)
             ELSE IF hash # self.old_hash
             THEN PageUpdated(self, text, hash, time, raising_page, raising_fw)
             ELSE Outcome(self.old_hash, time, self.html_parser, <<>>, Return(None))

\* ------------------------------------------------------------------ state
VARIABLES
    old_hash,       \* ApUpdateChecker.old_hash
    last_crawl,     \* ApUpdateChecker.last_crawl
    html_parser,    \* ApUpdateChecker.html_parser: [fw_link, rawdata]
    on_new_page,    \* the handler list of ApUpdateChecker.on_new_page
    on_new_fw,      \* the handler list of ApUpdateChecker.on_new_fw
    now,            \* number of check_fw calls made so far (the clock)
    resp,           \* what requests.get did in the last check_fw call
    pre,            \* the checker's fields when the last check_fw call began
    trace,          \* events fired and handlers invoked by the last call
    ret,            \* how the last check_fw call ended
    fetched,        \* the body of the last response with status 200
    channel,        \* DiscordAPFWBot.channel
    closed,         \* discord.Client.is_closed()
    ready,          \* where the on_ready coroutine is suspended
    pc,             \* where each fw_checker_task is suspended
    pending,        \* the message each task's channel.send is sending, if any
    sent,           \* the messages delivered to the channel, in order
    markup,         \* the text given to a Parse object on its own
    extracted,      \* how feed(markup) ended on it, and its fw_link then
    handlers,       \* Event.eventhandlers of an Event object on its own
    fired           \* the last call of that Event: the list then, the calls made

checker_vars == <<old_hash, last_crawl, html_parser, now, resp, pre, trace, ret, fetched>>
event_vars == <<on_new_page, on_new_fw>>
bot_vars == <<channel, closed, ready, pc, pending, sent>>
unit_vars == <<markup, extracted, handlers, fired>>
vars ==
    <<old_hash, last_crawl, html_parser, on_new_page, on_new_fw, now, resp, pre, trace, ret,
      fetched, channel, closed, ready, pc, pending, sent, markup, extracted, handlers, fired>>

\* the ApUpdateChecker object
Self ==
    [old_hash |-> old_hash, last_crawl |-> last_crawl, html_parser |-> html_parser,
     on_new_page |-> on_new_page, on_new_fw |-> on_new_fw]

\* ApUpdateChecker.fw_link
fw_link == html_parser.fw_link

\* the observers of on_new_page: the one the bot registers and one more
PageHandlers == {"new_page_available", "page_observer"}

\* the handlers registered in a handler list
Registered(eventhandlers) == {eventhandlers[i] : i \in 1..Len(eventhandlers)}

\* what the last check_fw call started from: the checker object and the
\* body fetched before
Pre(self, fetched_) ==
    [old_hash |-> self.old_hash, last_crawl |-> self.last_crawl,
     html_parser |-> self.html_parser, on_new_page |-> self.on_new_page,
     on_new_fw |-> self.on_new_fw, fetched |-> fetched_]

\* no check_fw call was made yet
NoCall == [kind |-> "none", value |-> None]

\* ApUpdateChecker.__init__ and the registrations of DiscordAPFWBot.__init__
CheckerInit ==
    /\ old_hash = None
    /\ last_crawl = None
    /\ html_parser = NewParser
    /\ on_new_page = iadd(<<>>, "new_page_available")
    /\ on_new_fw = iadd(<<>>, "new_firmware_available")
    /\ now = 0
    /\ resp = ConnectionError
    /\ pre = Pre(Self, None)
    /\ trace = <<>>
    /\ ret = NoCall
    /\ fetched = None

\* one call of check_fw; a handler raises or not each time it is invoked
DoCheckFw(r, raising_page, raising_fw) ==
    LET out == check_fw(Self, r, datetime_now(now + 1), raising_page, raising_fw)
    IN  /\ now' = now + 1
        /\ resp' = r
        /\ pre' = Pre(Self, fetched)
        /\ fetched' = IF ~r.raised /\ r.status_code = 200 THEN r.content ELSE fetched
        /\ old_hash' = out.old_hash
        /\ last_crawl' = out.last_crawl
        /\ html_parser' = out.html_parser
        /\ trace' = out.trace
        /\ ret' = out.ret
        /\ UNCHANGED <<event_vars, unit_vars>>

\* a caller of the ApUpdateChecker object calls check_fw
CallCheckFw ==
    /\ now < MaxChecks
    /\ \E r \in Responses :
       \E raising_page \in SUBSET Registered(on_new_page) :
       \E raising_fw \in SUBSET Registered(on_new_fw) :
           DoCheckFw(r, raising_page, raising_fw)
    /\ UNCHANGED bot_vars

\* checker.on_new_page += handler
AddPageHandler ==
    \E h \in PageHandlers :
        /\ Len(on_new_page) < MaxHandlers
        /\ on_new_page' = iadd(on_new_page, h)
        /\ UNCHANGED <<checker_vars, on_new_fw, bot_vars, unit_vars>>

\* ------------------------------------------------------------------ the bot
Tasks == 1..MaxTasks

\* what get_channel returns when the channel is found
Channel == <<"channel">>

NoMessage == [kind |-> "none", arg |-> None, check |-> 0]
\* the texts of lines 140, 170 and 175, with the check_fw call they follow
Greeting == [kind |-> "at_your_service", arg |-> None, check |-> 0]
NewFirmware(link, n) == [kind |-> "new_firmware", arg |-> link, check |-> n]
UnhandledError(exc, n) == [kind |-> "unhandled_error", arg |-> exc, check |-> n]

\* DiscordAPFWBot.__init__ around ApUpdateChecker.__init__; client.run
BotInit ==
    /\ CheckerInit
    /\ channel = None
    /\ closed = FALSE
    /\ ready = "idle"
    /\ pc = [t \in Tasks |-> "none"]
    /\ pending = [t \in Tasks |-> NoMessage]
    /\ sent = <<>>

\* send_message up to the await of channel.send: is the text handed to
\* channel.send (TRUE) or only printed (FALSE)
Sends(channel_, closed_) == channel_ # None /\ ~closed_

\* loop.create_task(self.fw_checker_task()): the task takes the first free slot
CreateTask(pc_) ==
    LET t == CHOOSE t \in Tasks : pc_[t] = "none" /\ \A u \in Tasks : pc_[u] = "none" => t <= u
    IN  [pc_ EXCEPT ![t] = "loop"]

\* as if check_fw were awaited: other coroutines run while it is under way
Idle_awaiting == TRUE

\* the event loop runs one coroutine at a time, up to its next await:
\* check_fw is called without await (line 168), so while a task is in it no
\* other coroutine runs
Idle == \A u \in Tasks : pc[u] # "checking"

\* on_ready, lines 133-141, up to its first suspension or to its end:
\* get_channel found the channel or not.  With the client open, on_ready
\* is suspended in close() (no channel) or in channel.send (line 127).  With
\* the client closed already, close() returns at once and send_message only
\* prints, so on_ready runs to its end and the task is created in the same
\* step.
OnReady ==
    /\ Idle
    /\ ready = "idle"
    /\ \E t \in Tasks : pc[t] = "none"
    /\ \E ch \in {None, Channel} :
        /\ channel' = ch
        /\ closed' = (closed \/ ch = None)
        /\ IF closed
           THEN /\ ready' = "idle"
                /\ pc' = CreateTask(pc)
           ELSE /\ ready' = IF Sends(ch, closed') THEN "greeting" ELSE "create"
                /\ UNCHANGED pc
    /\ UNCHANGED <<checker_vars, event_vars, unit_vars, pending, sent>>

\* on_ready resumes from channel.send of line 140: the greeting was
\* delivered and the task is created, or send raised and on_ready ends
OnReadyGreeted ==
    /\ Idle
    /\ ready = "greeting"
    /\ ready' = "idle"
    /\ \/ /\ sent' = Append(sent, Greeting)
          /\ pc' = CreateTask(pc)
       \/ UNCHANGED <<sent, pc>>
    /\ UNCHANGED <<checker_vars, event_vars, unit_vars, channel, closed, pending>>

\* on_ready resumes from close() of line 138: send_message only prints
\* (lines 124-130) and the task is created (line 141)
OnReadyCreate ==
    /\ Idle
    /\ ready = "create"
    /\ ready' = "idle"
    /\ pc' = CreateTask(pc)
    /\ UNCHANGED <<checker_vars, event_vars, unit_vars, channel, closed, pending, sent>>

\* Python's truth value of check_fw's result
Truthy(value) == value # None /\ value # <<>>

\* except NewConnectionError: none of the exceptions that leave check_fw is
\* one (requests.get raises requests.exceptions.ConnectionError)
IsNewConnectionError(exc) == exc = <<"NewConnectionError">>

\* where task t goes when it calls send_message(m)
SendMessage(t, m, at) ==
    IF Sends(channel, closed)
    THEN /\ pc' = [pc EXCEPT ![t] = at]
         /\ pending' = [pending EXCEPT ![t] = m]
    ELSE /\ pc' = [pc EXCEPT ![t] = "sleep"]
         /\ pending' = [pending EXCEPT ![t] = NoMessage]

\* fw_checker_task without the loop test of line 166
TaskBeginCheck_ignoring_close(t) ==
    /\ Idle
    /\ pc[t] = "loop"
    /\ now < MaxCycles
    /\ pc' = [pc EXCEPT ![t] = "checking"]
    /\ UNCHANGED <<checker_vars, event_vars, unit_vars, channel, closed, ready, pending, sent>>

\* fw_checker_task, lines 166-168: the client is not closed, check_fw is
\* called
TaskBeginCheck(t) ==
    /\ Idle
    /\ pc[t] = "loop"
    /\ ~closed
    /\ now < MaxCycles
    /\ pc' = [pc EXCEPT ![t] = "checking"]
    /\ UNCHANGED <<checker_vars, event_vars, unit_vars, channel, closed, ready, pending, sent>>

\* fw_checker_task, lines 168-175, from the call of check_fw to the next
\* suspension: check_fw runs and returns or raises, then the send of the
\* result or of the error
TaskCheck(t) ==
    /\ pc[t] = "checking"
    /\ \E r \in LoopResponses :
       \E raising_page \in SUBSET Registered(on_new_page) :
       \E raising_fw \in SUBSET Registered(on_new_fw) :
           DoCheckFw(r, raising_page, raising_fw)
    /\ IF ret'.kind = "return"
       THEN IF Truthy(ret'.value)
            THEN SendMessage(t, NewFirmware(ret'.value, now'), "send_result")
            ELSE /\ pc' = [pc EXCEPT ![t] = "sleep"]
                 /\ UNCHANGED pending
       ELSE IF IsNewConnectionError(ret'.value)
            THEN /\ pc' = [pc EXCEPT ![t] = "sleep"]
                 /\ UNCHANGED pending
            ELSE SendMessage(t, UnhandledError(ret'.value, now'), "send_error")
    /\ UNCHANGED <<channel, closed, ready, sent>>

\* fw_checker_task, line 166: the client is closed, the loop ends
TaskExit(t) ==
    /\ Idle
    /\ pc[t] = "loop"
    /\ closed
    /\ pc' = [pc EXCEPT ![t] = "done"]
    /\ UNCHANGED <<checker_vars, event_vars, unit_vars, channel, closed, ready, pending, sent>>

\* the task resumes from channel.send of line 170: the announcement was
\* delivered, or send raised and the handler of line 173 reports that
TaskSentResult(t) ==
    /\ Idle
    /\ pc[t] = "send_result"
    /\ \/ /\ sent' = Append(sent, pending[t])
          /\ pc' = [pc EXCEPT ![t] = "sleep"]
          /\ pending' = [pending EXCEPT ![t] = NoMessage]
       \/ /\ SendMessage(t, UnhandledError(<<"HTTPException">>, pending[t].check), "send_error")
          /\ UNCHANGED sent
    /\ UNCHANGED <<checker_vars, event_vars, unit_vars, channel, closed, ready>>

\* the task resumes from channel.send of line 175: the report was
\* delivered, or send raised and the exception ends the task
TaskSentError(t) ==
    /\ Idle
    /\ pc[t] = "send_error"
    /\ \/ /\ sent' = Append(sent, pending[t])
          /\ pc' = [pc EXCEPT ![t] = "sleep"]
       \/ /\ pc' = [pc EXCEPT ![t] = "dead"]
          /\ UNCHANGED sent
    /\ pending' = [pending EXCEPT ![t] = NoMessage]
    /\ UNCHANGED <<checker_vars, event_vars, unit_vars, channel, closed, ready>>

\* asyncio.sleep of line 177 is over
TaskWake(t) ==
    /\ Idle
    /\ pc[t] = "sleep"
    /\ pc' = [pc EXCEPT ![t] = "loop"]
    /\ UNCHANGED <<checker_vars, event_vars, unit_vars, channel, closed, ready, pending, sent>>

\* someone closes the client (Client.close)
Close ==
    /\ Idle
    /\ ~closed
    /\ closed' = TRUE
    /\ UNCHANGED <<checker_vars, event_vars, unit_vars, channel, ready, pc, pending, sent>>

\* ------------------------------------------------------------------ specifications
\* no Parse object and no Event object on their own
NotFed == [kind |-> "none", fw_link |-> None]
NotFired == [kind |-> "none", eventhandlers |-> <<>>, trace |-> <<>>, raised |-> FALSE]
UnitInit ==
    /\ markup = <<>>
    /\ extracted = NotFed
    /\ handlers = <<>>
    /\ fired = NotFired

Init == BotInit /\ UnitInit

Next ==
    \/ CallCheckFw
    \/ AddPageHandler

\* the ApUpdateChecker object, called by any caller with any observers
Spec == Init /\ [][Next]_vars

BotNext ==
    \/ OnReady
    \/ OnReadyGreeted
    \/ OnReadyCreate
    \/ Close
    \/ \E t \in Tasks : TaskBeginCheck(t)
    \/ \E t \in Tasks : TaskCheck(t)
    \/ \E t \in Tasks : TaskExit(t)
    \/ \E t \in Tasks : TaskSentResult(t)
    \/ \E t \in Tasks : TaskSentError(t)
    \/ \E t \in Tasks : TaskWake(t)

\* the program: the bot and its watch loop
BotSpec == Init /\ [][BotNext]_vars

\* the steps of task t that come by themselves: check_fw returns or
\* raises, channel.send returns or raises, asyncio.sleep ends, the loop test
\* finds the client closed
TaskStep(t) ==
    \/ TaskCheck(t)
    \/ TaskExit(t)
    \/ TaskSentResult(t)
    \/ TaskSentError(t)
    \/ TaskWake(t)

\* the program when the event loop keeps running: as long as some task can
\* go on, a task does
BotFairSpec == BotSpec /\ WF_vars(\E t \in Tasks : TaskStep(t))

\* ------------------------------------------------------------------ Parse alone
\* the items of a text: anchors with a qualifying href, with a relative one,
\* with another extension, with an href without a value, and character data
MarkupItems == {A(FW1), A(FW2), A(REL), A(TXT), A(None), Data}
\* the texts of at most MaxMarkup items
Markups == UNION {[1..n -> MarkupItems] : n \in 0..MaxMarkup}

\* some text is about to be given to a new Parse object
ExtractInit ==
    /\ BotInit
    /\ markup \in Markups
    /\ extracted = NotFed
    /\ handlers = <<>>
    /\ fired = NotFired

\* parser = Parse(); parser.feed(markup); then parser.fw_link is read
ParseFeed ==
    /\ extracted.kind = "none"
    /\ LET fed == feed(NewParser, markup)
       IN  extracted' = [kind |-> IF fed.raised THEN "raise" ELSE "return",
                         fw_link |-> fed.fw_link]
    /\ UNCHANGED <<checker_vars, event_vars, bot_vars, markup, handlers, fired>>

ExtractNext == ParseFeed

\* the Parse class on every text of the bound
ExtractSpec == ExtractInit /\ [][ExtractNext]_vars

\* ------------------------------------------------------------------ Event alone
\* the callables registered on the Event
Callbacks == {"f", "g", "h"}

\* event += handler
EventIadd ==
    \E handler \in Callbacks :
        /\ Len(handlers) < MaxHandlers
        /\ handlers' = iadd(handlers, handler)
        /\ UNCHANGED <<checker_vars, event_vars, bot_vars, markup, extracted, fired>>

\* event -= handler, for a handler of the list (list.remove raises
\* ValueError for any other and leaves the list as it is)
EventIsub ==
    \E handler \in Registered(handlers) :
        /\ handlers' = isub(handlers, handler)
        /\ UNCHANGED <<checker_vars, event_vars, bot_vars, markup, extracted, fired>>

\* event(arg); each handler raises or not
EventFire ==
    \E raising \in SUBSET Registered(handlers) :
        LET call == EventCall("event", handlers, <<"arg">>, raising)
        IN  /\ fired' = [kind |-> "fired", eventhandlers |-> handlers,
                         trace |-> call.trace, raised |-> call.raised]
            /\ UNCHANGED <<checker_vars, event_vars, bot_vars, markup, extracted, handlers>>

EventNext == EventIadd \/ EventIsub \/ EventFire

\* the Event class under any registrations, deregistrations and calls
EventSpec == Init /\ [][EventNext]_vars

\* ------------------------------------------------------------------ the last call
\* a check_fw call was made
Called == ret.kind # "none"

\* the fetch of the last call returned status 200
Status200 == Called /\ ~resp.raised /\ resp.status_code = 200

\* the fetch of the last call returned another status
StatusNot200 == Called /\ ~resp.raised /\ resp.status_code # 200

\* the markup the last call fetched
Text == Decode(resp.content)

\* the last call compared the hash of the content with a stored one
Compared == Status200 /\ ~DecodeRaises(resp.content) /\ pre.old_hash # None

\* ... and the two differ: the call detected changed content
HashDiffers == Compared /\ sha256(resp.content) # pre.old_hash

\* the last call fired the event
Fired(event) ==
    \E i \in 1..Len(trace) : trace[i].kind = "fire" /\ trace[i].event = event

\* the invocations of the handlers of on_new_page in the last call
PageInvocations ==
    SelectSeq(trace, LAMBDA e : e.kind = "invoke" /\ e.event = "on_new_page")

\* a handler of on_new_page raised in the last call
PageObserverRaised ==
    \E i \in 1..Len(PageInvocations) : PageInvocations[i].raised

\* the last call returned a link
ReturnedLink == ret.kind = "return" /\ ret.value # None

\* the places <<i, j>> of the qualifying links of a markup: attribute j of
\* item i, an <a> tag of the markup taken by itself
QualifyingPlaces(text) ==
    {p \in UNION {{<<i, j>> : j \in 1..Len(text[i].attrs)} : i \in 1..Len(text)} :
        /\ text[p[1]].kind \in {"starttag", "quoted"}
        /\ text[p[1]].tag = "a"
        /\ text[p[1]].attrs[p[2]][2] # None
        /\ Qualifies(text[p[1]].attrs[p[2]][1], text[p[1]].attrs[p[2]][2])}

Before(p, q) == p[1] < q[1] \/ (p[1] = q[1] /\ p[2] <= q[2])

\* the last qualifying link of a markup in document order, None without one
LastQualifying(text) ==
    IF QualifyingPlaces(text) = {} THEN None
    ELSE LET p == CHOOSE p \in QualifyingPlaces(text) :
                      \A q \in QualifyingPlaces(text) : Before(q, p)
         IN  text[p[1]].attrs[p[2]][2]

\* the link the checker's parser holds after it is fed the fetched markup
FedLink == feed(pre.html_parser, Text).fw_link

\* ------------------------------------------------------------------ claims

\* C1: when a handler of on_new_page raises while the event is fired, the
\* handlers registered with it are all still invoked, in the same check_fw
\* call and with the same page.
C1_RaisingObserverIsIsolated ==
    PageObserverRaised =>
        /\ Len(PageInvocations) = Len(pre.on_new_page)
        /\ \A i \in 1..Len(PageInvocations) :
            /\ PageInvocations[i].handler = pre.on_new_page[i]
            /\ PageInvocations[i].arg = Text

\* the watch loop is between two cycles: no task is inside a send
BetweenCycles == \A t \in Tasks : pc[t] \notin {"send_result", "send_error"}

\* the "New firmware available" messages delivered for check_fw call n
Announcements(n) ==
    {i \in 1..Len(sent) : sent[i].kind = "new_firmware" /\ sent[i].check = n}

\* C2: a cycle of the watch loop whose check_fw call finds another hash than
\* the stored one and another link than the stored one delivers exactly one
\* "New firmware available" message, and it carries that link.
C2_TransitionAnnouncedOnce ==
    (BetweenCycles /\ HashDiffers /\ FedLink # pre.html_parser.fw_link) =>
        /\ Cardinality(Announcements(now)) = 1
        /\ \A i \in Announcements(now) : sent[i].arg = FedLink

\* C3: after a check_fw call that detected changed content without any
\* qualifying link while a link was stored, the stored link is None (also in
\* the calls that no exception leaves).
C3_LinkBecomesAbsent ==
    (HashDiffers /\ ret.kind = "return"
        /\ LastQualifying(Text) = None /\ pre.html_parser.fw_link # None) =>
        fw_link = None

\* C4: after a check_fw call that detected changed content and in which a
\* handler of on_new_page raised, old_hash is the hash of the new content and
\* fw_link is what it is after the same call with no handler raising.
C4_RaisingObserverLeavesState ==
    (HashDiffers /\ PageObserverRaised) =>
        /\ old_hash = sha256(resp.content)
        /\ fw_link = check_fw(pre, resp, datetime_now(now), {}, {}).html_parser.fw_link

\* C5: a check_fw call whose fetch returns a status other than 200 returns
\* None, fires no event and leaves old_hash, the parser with fw_link and
\* last_crawl as they were, so that the next call starts from the state
\* stored before the failure.
C5_FailedFetchLeavesState ==
    StatusNot200 =>
        /\ ret = Return(None)
        /\ trace = <<>>
        /\ old_hash = pre.old_hash
        /\ html_parser = pre.html_parser
        /\ last_crawl = pre.last_crawl

\* a 404 after a 404 after the baseline: the stored hash is still the
\* baseline's, and the body of the 404 has another hash
C5_Witness ==
    /\ StatusNot200
    /\ now >= 3
    /\ pre.old_hash # None
    /\ pre.old_hash # sha256(resp.content)
    /\ pre.last_crawl # datetime_now(now - 1)
    /\ old_hash = pre.old_hash

\* C6: the first check_fw call whose fetch returns status 200 fires no event,
\* returns no link and stores the hash of the content and the link extracted
\* from it, whatever the content.
C6_FirstSuccessStoresBaseline ==
    (Status200 /\ pre.last_crawl = None) =>
        /\ trace = <<>>
        /\ ~ReturnedLink
        /\ old_hash = sha256(resp.content)
        /\ fw_link = Extract(Text)

\* C7: a check_fw call that fetches content with the stored hash fires no
\* event, returns None and leaves old_hash and the parser with fw_link as
\* they were.
C7_UnchangedContentIsSilent ==
    (Compared /\ sha256(resp.content) = pre.old_hash) =>
        /\ trace = <<>>
        /\ ret = Return(None)
        /\ old_hash = pre.old_hash
        /\ html_parser = pre.html_parser

\* the same content fetched in two calls in a row after the baseline
C7_Witness ==
    /\ Compared
    /\ sha256(resp.content) = pre.old_hash
    /\ now >= 3
    /\ pre.fetched = resp.content
    /\ pre.last_crawl = datetime_now(now - 1)
    /\ last_crawl = datetime_now(now)

\* C8: a check_fw call that finds another hash than the stored one and
\* another link than the stored one fires on_new_page with the new page, then
\* on_new_fw with the new link, and returns the new link.
C8_BothFireInOrder ==
    (HashDiffers /\ FedLink # pre.html_parser.fw_link) =>
        /\ \E i, j \in 1..Len(trace) :
            /\ i < j
            /\ trace[i] = Firing("on_new_page", Text)
            /\ trace[j] = Firing("on_new_fw", FedLink)
        /\ ret = Return(FedLink)

\* C9: after the baseline, a check_fw call whose fetch returns status 200
\* with other bytes than the last body fetched, and whose page has the
\* stored link as its last qualifying link, fires on_new_page, does not
\* fire on_new_fw and returns no link.
C9_SameLinkFiresPageOnly ==
    (Status200 /\ pre.old_hash # None /\ resp.content # pre.fetched
        /\ LastQualifying(Text) = pre.html_parser.fw_link) =>
        /\ Fired("on_new_page")
        /\ ~Fired("on_new_fw")
        /\ ~ReturnedLink

\* C10: after the baseline, a check_fw call whose fetch returns status 200
\* and other bytes than the last body fetched fires on_new_page.
C10_ChangedBytesFirePageChanged ==
    (Status200 /\ pre.old_hash # None /\ resp.content # pre.fetched) =>
        Fired("on_new_page")

\* C11: no failure in a cycle of fw_checker_task ends the task: whatever
\* check_fw and the sends do, a task never leaves its loop by an exception.
C11_LoopSurvivesBadCycle == \A t \in Tasks : pc[t] # "dead"

\* the messages of check_fw call n that were handed to channel.send: those
\* delivered and those a task is still sending
HandedToSend(n) ==
    {sent[i] : i \in {j \in 1..Len(sent) : sent[j].check = n}}
        \cup {pending[t] : t \in {u \in Tasks :
                /\ pc[u] \in {"send_result", "send_error"}
                /\ pending[u].check = n}}

\* C13: a cycle whose fetch fails, by a status other than 200 or by a
\* transport error, hands no message to the channel.
C13_FetchFailureIsSilent ==
    (Called /\ (resp.raised \/ resp.status_code # 200)) => HandedToSend(now) = {}

\* C16: old_hash is set if and only if a fetch has returned status 200, and
\* it is set whenever last_crawl is: a call whose fetch returned status 200
\* leaves old_hash set, old_hash becomes set only in such a call, and
\* last_crawl is never set while old_hash is not.
C16_HashSetIffFetched ==
    /\ Status200 => old_hash # None
    /\ (old_hash # None /\ pre.old_hash = None) => Status200
    /\ last_crawl # None => old_hash # None

\* C18: a link returned by check_fw is the stored link after the call, is
\* not the stored link before the call, and on_new_fw was fired with it in
\* the call.
C18_ReturnedLinkWasAnnounced ==
    ReturnedLink =>
        /\ ret.value = fw_link
        /\ ret.value # pre.html_parser.fw_link
        /\ \E i \in 1..Len(trace) : trace[i] = Firing("on_new_fw", ret.value)

\* a call returned a link that replaced another stored link
C18_Witness ==
    /\ ReturnedLink
    /\ pre.html_parser.fw_link # None
    /\ fw_link = ret.value
    /\ Fired("on_new_fw")

\* C14: for any markup, the link a Parse object holds after feed is the
\* last link in document order that qualifies, None if none does.
C14_ResultIsLastQualifying ==
    extracted.kind # "none" =>
        /\ extracted.kind = "return"
        /\ extracted.fw_link = LastQualifying(markup)

\* the handlers an Event call invoked, in the order of the calls
Invoked(trace_) ==
    LET calls == SelectSeq(trace_, LAMBDA e : e.kind = "invoke")
    IN  [i \in 1..Len(calls) |-> calls[i].handler]

\* C17: after any += and -=, calling the Event invokes the handlers of the
\* list as it is then, each once per registration left, in the order of
\* registration, and no handler that is not in the list.
C17_FiringInvokesRegistered ==
    fired.kind = "fired" => Invoked(fired.trace) = fired.eventhandlers

\* the tasks that are in a check_fw call
InCheck == {t \in Tasks : pc[t] = "checking"}

\* C12: at most one check_fw call is under way at any time, however many
\* fw_checker_task coroutines on_ready has started.
C12_OneCheckInFlight == Cardinality(InCheck) <= 1

\* a task is in check_fw while another task is at its loop test
C12_Witness ==
    \E t \in Tasks : \E u \in Tasks :
        /\ t # u
        /\ pc[t] = "checking"
        /\ pc[u] = "loop"

\* no task is in its loop any more
Terminated == \A t \in Tasks : pc[t] \in {"none", "done", "dead"}

\* C15: once the client is closed no check_fw call begins or ends (a call
\* that began before has ended, with its updates made) and every task
\* comes to its end.
C15_CloseStopsTheLoop ==
    /\ [][closed => (now' = now /\ InCheck' = {})]_vars
    /\ closed ~> Terminated

\* the client was closed after a check and a task left its loop by the test
C15_Witness ==
    /\ closed
    /\ now >= 1
    /\ \E t \in Tasks : pc[t] = "done"

====
